---- MODULE Spec2Model ----
(***************************************************************************)
(* Trimer: the procedural tree (Tree / GreenTree), its drawing onto a      *)
(* QPainter, and the Window driver (study / break countdown) of            *)
(* src/__main__.py.                                                        *)
(*                                                                         *)
(* Python floats are modelled as fixed-point numbers: an integer n stands  *)
(* for the real n / Scale.  Multiplication and division round toward zero, *)
(* so that, as for IEEE floats, (-a) * b = -(a * b).                       *)
(***************************************************************************)
EXTENDS Integers, Sequences, FiniteSets, TLC

\* ------------------------------------------------------------ numbers

\* one unit of the fixed-point representation of a Python float
Scale == 1000

\* internal precision of the series that stand for math.sin and math.acos
Fine == 10000

\* math.pi
Pi == 3142

Abs(a) == IF a < 0 THEN -a ELSE a

Min(a, b) == IF a <= b THEN a ELSE b

\* a * b on floats
Mul(a, b) ==
    LET p == a * b
    IN IF p < 0 THEN -((-p) \div Scale) ELSE p \div Scale

\* a / b on floats (b # 0)
Div(a, b) ==
    LET p == a * Scale
    IN IF (p < 0) # (b < 0) THEN -(Abs(p) \div Abs(b)) ELSE Abs(p) \div Abs(b)

\* a / b rounded to the nearest integer, a >= 0, b > 0
RDiv(a, b) == (2 * a + b) \div (2 * b)

\* number of terms of the sine series after the first
SinTerms == 6

RECURSIVE SinSeries(_, _, _)
\* Horner evaluation of 1 - y/3! + y^2/5! - ... with y = x^2, at precision Fine
SinSeries(y, k, t) ==
    IF k = 0 THEN t
    ELSE SinSeries(y, k - 1, Fine - RDiv(RDiv(y * t, Fine), 2 * k * (2 * k + 1)))

\* math.sin(a) for |a| <= pi/2
Sin(a) ==
    LET x == Abs(a) * (Fine \div Scale)
        y == RDiv(x * x, Fine)
        s == RDiv(RDiv(x * SinSeries(y, SinTerms, Fine), Fine), Fine \div Scale)
    IN IF a < 0 THEN -s ELSE s

\* number of terms of the arcsine series after the first
AsinTerms == 8

RECURSIVE AsinSeries(_, _, _, _)
\* x + x^3/6 + 3x^5/40 + ...: term n+1 is term n times y (2n-1)^2 / (2n (2n+1))
AsinSeries(y, n, term, acc) ==
    IF n > AsinTerms THEN acc
    ELSE LET next == RDiv(RDiv(term * y, Fine) * (2 * n - 1) * (2 * n - 1),
                          2 * n * (2 * n + 1))
         IN AsinSeries(y, n + 1, next, acc + next)

\* math.acos(u) for 0 <= u <= 0.6
Acos(u) ==
    LET x == u * (Fine \div Scale)
        y == RDiv(x * x, Fine)
    IN RDiv(Pi * (Fine \div Scale), 2 * (Fine \div Scale))
         - RDiv(AsinSeries(y, 1, x, x), Fine \div Scale)

\* math.acos on the range of uniform(0.4, 0.6), tabulated
AcosOf == [u \in 400..600 |-> Acos(u)]

\* math.degrees(x) = x * (180 / pi)
Degrees(x) == Mul(x, Div(180 * Scale, Pi))

\* Python's round() of a float x >= 0: to the nearest integer, ties to even
Round(x) ==
    LET f == x \div Scale
        r == x % Scale
    IN IF 2 * r > Scale THEN f + 1
       ELSE IF 2 * r < Scale THEN f
       ELSE IF f % 2 = 0 THEN f ELSE f + 1

\* random.uniform(a, b) = a + (b - a) * random(), r the value of random()
Uniform(a, b, r) == a + Mul(b - a, r)

\* mutant of smoothen_curve: (sin(x * pi / 2) + 1) / 2, the argument not centred
smoothen_curve_uncentred(x) == Div(Sin(Mul(x, Pi) \div 2) + Scale, 2 * Scale)

\* smoothen_curve(x) = (sin((x - 1/2) * pi) + 1) / 2
smoothen_curve(x) == Div(Sin(Mul(x - Div(Scale, 2 * Scale), Pi)) + Scale, 2 * Scale)

\* smoothen_curve on [0, 1], tabulated: the ages the plant is drawn at
Eased == [x \in 0..Scale |-> smoothen_curve(x)]

\* ------------------------------------------------------------- state

VARIABLES
    cls,                \* class of the plant object: "Tree" or "GreenTree"
    maxAge,             \* Tree.maxAge (None until change_max_age)
    age,                \* Tree.age
    age_coefficient,    \* Tree.age_coefficient (None until generate)
    width_coefficient,  \* Tree.width_coefficient
    height_coefficient, \* Tree.height_coefficient
    branches,           \* Tree.branches: sequence of <<h, rotation>>
    branches_id,        \* identity of the list object bound to Tree.branches
    painter,            \* calls received by the QPainter of the current handler
    calls,              \* calls the current handler made on the plant
    first_draw,         \* the first draw since the config was generated
    study_spin,         \* Window.study_time_spinbox.value()
    break_spin,         \* Window.break_time_spinbox.value()
    study_done,         \* Window.study_done
    leftover_time,      \* Window.leftover_time, seconds
    total_time,         \* Window.total_time, seconds
    timer_active,       \* Window.study_timer.isActive()
    study_enabled,      \* Window.study_button is enabled
    break_enabled,      \* Window.break_button is enabled
    pause_enabled,      \* Window.pause_button is enabled
    canvas_visible,     \* Window.canvas is shown
    age_set,            \* set_current_age was called since the last start()
    ease_in,            \* argument pair of the easing specification
    ease_out            \* smoothen_curve of ease_in

treeVars == <<maxAge, age, age_coefficient, width_coefficient,
              height_coefficient, branches, branches_id>>

configVars == <<maxAge, age_coefficient, width_coefficient,
                height_coefficient, branches, branches_id>>

windowVars == <<study_spin, break_spin, study_done, leftover_time, total_time,
                timer_active, study_enabled, break_enabled, pause_enabled,
                canvas_visible, age_set>>

easeVars == <<ease_in, ease_out>>

vars == <<cls, treeVars, painter, calls, first_draw, windowVars, easeVars>>

\* Python's None (also: an attribute not yet assigned)
None == -1

\* ------------------------------------------------------------ bounds

\* set_current_age is called with k/AgeSteps, k in 0..AgeSteps
AgeSteps == 4

\* the easing specification applies smoothen_curve to k/EaseSteps
EaseSteps == 12

\* seconds of countdown that one modelled timer tick stands for
TickSeconds == 1800

\* the values of random() the model draws: the smallest and the largest
\* float of [0, 1)
RandomValues == {0, Scale - 1}

MaxAgeValues == {0, Scale \div 2, Scale}

AgeValues == {(k * Scale) \div AgeSteps : k \in 0..AgeSteps}

EaseValues == {(k * Scale) \div EaseSteps : k \in 0..EaseSteps} \cup {Scale \div 2}

\* <<width, height>> of the canvases drawn to (Canvas itself is 300 x 300)
CanvasSizes == {<<300, 300>>, <<200, 100>>}


\* --------------------------------------------------------- Tree.generate

\* mutant of BranchCount: the draw starts at 0, so a tree can have no branch
BranchCountFromZero(ac, r) == Round(Uniform(0, Mul(2 * Scale, ac), r))

\* branch_count = round(uniform(1, 2 * self.age_coefficient))
BranchCount(ac, r) == Round(Uniform(1 * Scale, Mul(2 * Scale, ac), r))

\* mutant of BranchSign: the two branches of a pair are not turned apart
BranchSignSameSide(i, count, r) ==
    IF count = 2 THEN Scale
    ELSE IF r < Scale \div 2 THEN -Scale ELSE Scale

\* the sign of branch i of count: ((i - 1/2) * 2) if branch_count == 2
\* else (-1 if random() < 0.5 else 1)
BranchSign(i, count, r) ==
    IF count = 2 THEN Mul(i * Scale - Div(Scale, 2 * Scale), 2 * Scale)
    ELSE IF r < Scale \div 2 THEN -Scale ELSE Scale

\* the orientation of branch i: sign * acos(uniform(0.4, 0.6)), one draw each
BranchOrientation(i, count, rc, ru) ==
    Mul(BranchSign(i, count, rc), AcosOf[Uniform(400, 600, ru)])

\* the position of a branch up the tree:
\* uniform(self.width_coefficient * 0.45, self.width_coefficient * 0.55)
BranchHeight(wc, r) == Uniform(Mul(wc, 450), Mul(wc, 550), r)

\* the draws of one branch: uniform (height), random() (the coin, tossed only
\* when branch_count # 2), uniform (orientation)
BranchDraws(count, RS) == RS \X (IF count = 2 THEN {0} ELSE RS) \X RS

\* the lists the comprehension can build: d[i] are the draws of branch i-1
BranchLists(count, wc, RS) ==
    {[i \in 1..count |->
        <<BranchHeight(wc, d[i][1]), BranchOrientation(i - 1, count, d[i][2], d[i][3])>>]
     : d \in [1..count -> BranchDraws(count, RS)]}

\* Tree.generate (GreenTree.generate adds only the green_* closures)
\* what generate can assign for the given maxAge
Generated(m, RS) ==
    UNION {LET ac == Div(m + 1 * Scale, 2 * Scale)
               wc == Uniform(900, 1100, d[1])
           IN {[age_coefficient |-> ac,
                width_coefficient |-> wc,
                height_coefficient |-> Uniform(900, 1100, d[2]),
                branches |-> bs] : bs \in BranchLists(BranchCount(ac, d[3]), wc, RS)}
           : d \in RS \X RS \X RS}

generate(RS) ==
    \E g \in Generated(maxAge', RS) :
        /\ age_coefficient' = g.age_coefficient
        /\ width_coefficient' = g.width_coefficient
        /\ height_coefficient' = g.height_coefficient
        /\ branches' = g.branches
        /\ branches_id' = 1 - branches_id

\* Tree.set_current_age: assigns self.age and nothing else
set_current_age(a) ==
    /\ age' = a
    /\ UNCHANGED configVars

\* mutant of change_max_age: regenerating also restarts the growth
change_max_age_resetting(m, RS) ==
    /\ maxAge' = m
    /\ generate(RS)
    /\ age' = 0

\* Tree.change_max_age: assigns self.maxAge, then generate(); self.age is kept
change_max_age(m, RS) ==
    /\ maxAge' = m
    /\ generate(RS)
    /\ UNCHANGED age

\* the closures of generate
base_width(width) ==
    Mul(Mul(Div(width, 15 * Scale), width_coefficient), age_coefficient)

\* mutant of base_height: scaled by the width's coefficient
base_height_by_width(height) ==
    Mul(Mul(Div(height, 1700), width_coefficient), age_coefficient)

base_height(height) ==
    Mul(Mul(Div(height, 1700), height_coefficient), age_coefficient)

branch_width(width) ==
    Mul(Mul(Div(width, 18 * Scale), width_coefficient), age_coefficient)

branch_height(height) ==
    Mul(Mul(Div(height, 2700), height_coefficient), age_coefficient)

green_width(width) ==
    Mul(Mul(Div(width, 3 * Scale), width_coefficient), age_coefficient)

green_height(height) ==
    Mul(Mul(Div(height, 1200), height_coefficient), age_coefficient)

\* ------------------------------------------------------------- drawing

\* one call on a QPainter, or on the plant: its name and its numeric arguments
Op(name, args) == [op |-> name, args |-> args]

\* Qt.NoPen
NoPen == 0

\* the pen of a QPainter nobody has set a pen on (Qt.SolidLine)
DefaultPen == 1

\* the three points of painter.drawPolygon(QPointF(-w, y), QPointF(w, y), QPointF(0, top))
Triangle(left, right, y, top) == Op("drawPolygon", <<left, y, right, y, 0, top>>)

\* one turn of the loop "for h, rotation in self.branches" of Tree._draw
BranchOps(b, width, height) ==
    LET h == b[1]
        rotation == b[2]
        adjusted_age == Mul(age, age)
        e == Eased[adjusted_age]
    IN << Op("save", <<>>),
          Op("translate", <<0, base_height(Mul(Mul(height, h), Eased[age]))>>),
          Op("rotate", <<Degrees(rotation)>>),
          Triangle(Mul(Mul(-branch_width(width), e), Scale - h),
                   Mul(Mul(branch_width(width), e), Scale - h),
                   0,
                   Mul(Mul(branch_height(height), e), Scale - h)),
          Op("restore", <<>>) >>

RECURSIVE BranchesOps(_, _, _)
BranchesOps(bs, width, height) ==
    IF bs = <<>> THEN <<>>
    ELSE BranchOps(Head(bs), width, height) \o BranchesOps(Tail(bs), width, height)

\* Tree._draw
Tree_draw(width, height) ==
    << Op("setBrush", <<77, 51, 0>>),
       Triangle(Mul(-base_width(width), Eased[age]),
                Mul(base_width(width), Eased[age]),
                0,
                Mul(base_height(height), Eased[age])) >>
    \o BranchesOps(branches, width, height)

\* mutant of GreenTree_draw: the foliage is painted over the trunk and branches
GreenTree_draw_foliage_last(width, height) ==
    LET offset == base_height(Mul(Mul(height, 300), Eased[age]))
    IN Tree_draw(width, height)
       \o << Op("setPen", <<NoPen>>),
             Op("setBrush", <<0, 119, 0>>),
             Triangle(Mul(-green_width(width), Eased[age]),
                      Mul(green_width(width), Eased[age]),
                      offset,
                      Min(Mul(green_height(height), Eased[age]) + offset,
                          Mul(height, 950))) >>

\* GreenTree._draw
GreenTree_draw(width, height) ==
    LET offset == base_height(Mul(Mul(height, 300), Eased[age]))
    IN << Op("setPen", <<NoPen>>),
          Op("setBrush", <<0, 119, 0>>),
          Triangle(Mul(-green_width(width), Eased[age]),
                   Mul(green_width(width), Eased[age]),
                   offset,
                   Min(Mul(green_height(height), Eased[age]) + offset,
                       Mul(height, 950))) >>
       \o Tree_draw(width, height)

\* self._draw, dispatched on the object's class
Dispatch_draw(c, width, height) ==
    IF c = "GreenTree" THEN GreenTree_draw(width, height)
    ELSE Tree_draw(width, height)

\* mutant of drawAs: no test of self.maxAge
drawAsUnguarded(c, width, height) ==
    << Op("translate", <<Div(width * Scale, 2 * Scale), height * Scale>>),
       Op("scale", <<1 * Scale, -1 * Scale>>) >>
    \o Dispatch_draw(c, width * Scale, height * Scale)

\* Tree.draw on an object of class c: what the painter receives; width and
\* height are ints
drawAs(c, width, height) ==
    IF maxAge = None THEN <<>>
    ELSE << Op("translate", <<Div(width * Scale, 2 * Scale), height * Scale>>),
            Op("scale", <<1 * Scale, -1 * Scale>>) >>
         \o Dispatch_draw(c, width * Scale, height * Scale)

\* mutant of draw: drawing lets the plant grow
draw_growing(width, height) ==
    /\ painter' = drawAs(cls, width, height)
    /\ age' = Min(age + 1, 1 * Scale)
    /\ UNCHANGED configVars

\* self.draw(painter, width, height): the painter's calls; the plant is only read
draw(width, height) ==
    /\ painter' = drawAs(cls, width, height)
    /\ UNCHANGED treeVars

\* Drawable.save: a QSvgGenerator of the given size, a new QPainter on it,
\* self.draw, painter.end()
save(width, height) == draw(width, height)

\* the polygons a painter draws from the calls it received, each with the
\* transform, brush and pen in force: QPainter's state machine
RECURSIVE Paint(_, _, _, _, _)
Paint(log, pen, brush, xf, stack) ==
    IF log = <<>> THEN <<>>
    ELSE LET c == Head(log)
             rest == Tail(log)
         IN CASE c.op = "setPen" -> Paint(rest, c.args[1], brush, xf, stack)
              [] c.op = "setBrush" -> Paint(rest, pen, c.args, xf, stack)
              [] c.op \in {"translate", "scale", "rotate"} ->
                    Paint(rest, pen, brush, Append(xf, c), stack)
              [] c.op = "save" ->
                    Paint(rest, pen, brush, xf,
                          <<[pen |-> pen, brush |-> brush, xf |-> xf]>> \o stack)
              [] c.op = "restore" ->
                    Paint(rest, stack[1].pen, stack[1].brush, stack[1].xf, Tail(stack))
              [] OTHER ->
                    <<[points |-> c.args, xf |-> xf, brush |-> brush, pen |-> pen]>>
                    \o Paint(rest, pen, brush, xf, stack)

\* the polygons of a fresh painter
Primitives(log) == Paint(log, DefaultPen, <<>>, <<>>, <<>>)

\* ------------------------------------------- the plant and any caller

\* no draw recorded
NoDraw == [age |-> None, width |-> 0, height |-> 0, ops |-> <<>>]

\* the first draw after a change_max_age is remembered, to compare later
\* draws and saves with it
Remember(width, height) ==
    first_draw' = IF first_draw = NoDraw /\ maxAge # None
                  THEN [age |-> age, width |-> width, height |-> height, ops |-> painter']
                  ELSE first_draw

\* Window.__init__
DEFAULT_STUDY_TIME == 45

DEFAULT_BREAK_TIME == 15

MAX_PLANT_AGE == 90

MAX_TIME == 180

\* Canvas.setFixedSize(300, 300)
CanvasSide == 300

\* the values the spin boxes are set to, within their range 1..MAX_TIME
SpinValues == {1, DEFAULT_BREAK_TIME, DEFAULT_STUDY_TIME, MAX_TIME}

\* the Window after __init__: no session started, leftover_time, total_time
\* and study_done not yet assigned
WindowIdle ==
    /\ study_spin = DEFAULT_STUDY_TIME
    /\ break_spin = DEFAULT_BREAK_TIME
    /\ study_done = FALSE
    /\ leftover_time = None
    /\ total_time = None
    /\ timer_active = FALSE
    /\ study_enabled = TRUE
    /\ break_enabled = TRUE
    /\ pause_enabled = FALSE
    /\ canvas_visible = FALSE
    /\ age_set = FALSE

\* class attributes age = 0, maxAge = None; nothing generated
TreeNew ==
    /\ maxAge = None
    /\ age = 0
    /\ age_coefficient = None
    /\ width_coefficient = None
    /\ height_coefficient = None
    /\ branches = <<>>
    /\ branches_id = 0
    /\ painter = <<>>
    /\ calls = <<>>
    /\ first_draw = NoDraw

EaseIdle ==
    /\ ease_in = <<0, 0>>
    /\ ease_out = <<None, None>>

\* the plant of the program: self.plant = GreenTree()
Init ==
    /\ cls = "GreenTree"
    /\ TreeNew
    /\ WindowIdle
    /\ EaseIdle

ChangeMaxAge(m) ==
    /\ change_max_age(m, RandomValues)
    /\ painter' = <<>>
    /\ calls' = <<Op("change_max_age", <<m>>)>>
    /\ first_draw' = NoDraw
    /\ UNCHANGED <<cls, windowVars, easeVars>>

SetCurrentAge(a) ==
    /\ set_current_age(a)
    /\ painter' = <<>>
    /\ calls' = <<Op("set_current_age", <<a>>)>>
    /\ UNCHANGED <<cls, first_draw, windowVars, easeVars>>

\* the plant under any caller of change_max_age and set_current_age
Next ==
    \/ \E m \in MaxAgeValues : ChangeMaxAge(m)
    \/ \E a \in AgeValues : SetCurrentAge(a)

Spec == Init /\ [][Next]_vars

\* ------------------------------------------- drawing a generated plant

\* the plant, new or after one change_max_age(m)
DrawInit ==
    /\ cls = "GreenTree"
    /\ WindowIdle
    /\ EaseIdle
    /\ \/ TreeNew
       \/ \E m \in MaxAgeValues : \E g \in Generated(m, RandomValues) :
            /\ maxAge = m
            /\ age = 0
            /\ age_coefficient = g.age_coefficient
            /\ width_coefficient = g.width_coefficient
            /\ height_coefficient = g.height_coefficient
            /\ branches = g.branches
            /\ branches_id = 1
            /\ painter = <<>>
            /\ calls = <<Op("change_max_age", <<m>>)>>
            /\ first_draw = NoDraw

DrawCall(width, height) ==
    /\ draw(width, height)
    /\ calls' = <<Op("draw", <<width, height>>)>>
    /\ Remember(width, height)
    /\ UNCHANGED <<cls, windowVars, easeVars>>

SaveCall(width, height) ==
    /\ save(width, height)
    /\ calls' = <<Op("save", <<width, height>>)>>
    /\ UNCHANGED <<cls, first_draw, windowVars, easeVars>>

DrawNext ==
    \/ \E a \in AgeValues : SetCurrentAge(a)
    \/ \E s \in CanvasSizes : DrawCall(s[1], s[2])
    \/ \E s \in CanvasSizes : SaveCall(s[1], s[2])

DrawSpec == DrawInit /\ [][DrawNext]_vars

\* ---------------------------------------------------------- the Window

\* mutant of PlantMaxAge: the ratio is not capped at 1
PlantMaxAgeUncapped(total) == Div(Div(total, 60), MAX_PLANT_AGE * Scale)

\* the argument of self.plant.change_max_age in start:
\* min(1, (self.total_time / 60) / self.MAX_PLANT_AGE)
PlantMaxAge(total) == Min(1 * Scale, Div(Div(total, 60), MAX_PLANT_AGE * Scale))

\* mutant of start: a break regenerates the plant too
start_always_regenerating(do_break) ==
    /\ study_enabled' = do_break
    /\ break_enabled' = FALSE
    /\ pause_enabled' = TRUE
    /\ study_done' = do_break
    /\ leftover_time' = (IF do_break THEN break_spin ELSE study_spin) * 60
    /\ total_time' = leftover_time'
    /\ canvas_visible' = TRUE
    /\ \E m \in {PlantMaxAge(total_time')} :
         /\ \E r \in RandomValues : change_max_age(m, {r})
         /\ calls' = <<Op("change_max_age", <<m>>)>>
    /\ age_set' = FALSE
    /\ timer_active' = TRUE
    /\ painter' = <<>>
    /\ UNCHANGED <<cls, first_draw, study_spin, break_spin, easeVars>>

\* Window.start(do_break): the Study button (do_break false) or, through
\* start_break, the Break button
start(do_break) ==
    /\ study_enabled' = do_break
    /\ break_enabled' = FALSE
    /\ pause_enabled' = TRUE
    /\ study_done' = do_break
    /\ leftover_time' = (IF do_break THEN break_spin ELSE study_spin) * 60
    /\ total_time' = leftover_time'
    /\ IF ~do_break
       THEN /\ canvas_visible' = TRUE
            /\ \E m \in {PlantMaxAge(total_time')} :
                 \* the driver never reads the config: here the draws of one
                 \* generate() all take the same value r
                 /\ \E r \in RandomValues : change_max_age(m, {r})
                 /\ calls' = <<Op("change_max_age", <<m>>)>>
            /\ age_set' = FALSE
       ELSE /\ UNCHANGED <<canvas_visible, treeVars, age_set>>
            /\ calls' = <<>>
    /\ timer_active' = TRUE
    /\ painter' = <<>>
    /\ UNCHANGED <<cls, first_draw, study_spin, break_spin, easeVars>>

StudyPressed ==
    /\ study_enabled
    /\ start(FALSE)

\* Window.start_break
BreakPressed ==
    /\ break_enabled
    /\ start(TRUE)

\* Window.toggle_pause
toggle_pause ==
    /\ pause_enabled
    /\ timer_active' = ~timer_active
    /\ painter' = <<>>
    /\ calls' = <<>>
    /\ UNCHANGED <<cls, treeVars, first_draw, study_spin, break_spin, study_done,
                   leftover_time, total_time, study_enabled, break_enabled,
                   pause_enabled, canvas_visible, age_set, easeVars>>

\* Window.decrease_remaining_time, the slot of study_timer.timeout
decrease_remaining_time ==
    /\ timer_active
    /\ LET left == leftover_time - TickSeconds
       IN IF left <= 0
          THEN IF study_done
               THEN /\ timer_active' = FALSE
                    /\ break_enabled' = TRUE
                    /\ pause_enabled' = FALSE
                    /\ canvas_visible' = FALSE
                    /\ leftover_time' = left
                    /\ painter' = <<>>
                    /\ calls' = <<>>
                    /\ UNCHANGED <<treeVars, study_done, study_enabled, age_set>>
               ELSE /\ leftover_time' = break_spin * 60
                    /\ study_done' = TRUE
                    /\ study_enabled' = TRUE
                    /\ save(CanvasSide, CanvasSide)
                    /\ calls' = <<Op("save", <<CanvasSide, CanvasSide>>)>>
                    /\ UNCHANGED <<timer_active, break_enabled, pause_enabled,
                                   canvas_visible, age_set>>
          ELSE /\ leftover_time' = left
               /\ IF ~study_done
                  THEN /\ set_current_age(1 * Scale - Div(left, total_time))
                       /\ calls' = <<Op("set_current_age", <<age'>>)>>
                       /\ age_set' = TRUE
                  ELSE /\ UNCHANGED <<treeVars, age_set>>
                       /\ calls' = <<>>
               /\ painter' = <<>>
               /\ UNCHANGED <<study_done, timer_active, study_enabled, break_enabled,
                              pause_enabled, canvas_visible>>
    /\ UNCHANGED <<cls, first_draw, study_spin, break_spin, total_time, easeVars>>

\* Canvas.paintEvent: Qt repaints the canvas while it is shown
paintEvent ==
    /\ canvas_visible
    /\ draw(CanvasSide, CanvasSide)
    /\ calls' = <<Op("draw", <<CanvasSide, CanvasSide>>)>>
    /\ UNCHANGED <<cls, first_draw, windowVars, easeVars>>

\* the user edits study_time_spinbox
SetStudySpin(v) ==
    /\ study_spin' = v
    /\ painter' = <<>>
    /\ calls' = <<>>
    /\ UNCHANGED <<cls, treeVars, first_draw, break_spin, study_done, leftover_time,
                   total_time, timer_active, study_enabled, break_enabled,
                   pause_enabled, canvas_visible, age_set, easeVars>>

\* the user edits break_time_spinbox
SetBreakSpin(v) ==
    /\ break_spin' = v
    /\ painter' = <<>>
    /\ calls' = <<>>
    /\ UNCHANGED <<cls, treeVars, first_draw, study_spin, study_done, leftover_time,
                   total_time, timer_active, study_enabled, break_enabled,
                   pause_enabled, canvas_visible, age_set, easeVars>>

WindowNext ==
    \/ StudyPressed
    \/ BreakPressed
    \/ toggle_pause
    \/ decrease_remaining_time
    \/ paintEvent
    \/ \E v \in SpinValues : SetStudySpin(v)
    \/ \E v \in SpinValues : SetBreakSpin(v)

WindowSpec == Init /\ [][WindowNext]_vars

\* ------------------------------------------------- the easing function

ApplyEase ==
    /\ ease_out = <<None, None>>
    /\ ease_out' = <<smoothen_curve(ease_in[1]), smoothen_curve(ease_in[2])>>
    /\ UNCHANGED <<cls, treeVars, painter, calls, first_draw, windowVars, ease_in>>

\* smoothen_curve applied to a pair of arguments of [0, 1]
EaseInit ==
    /\ cls = "GreenTree"
    /\ TreeNew
    /\ WindowIdle
    /\ ease_in \in EaseValues \X EaseValues
    /\ ease_out = <<None, None>>

EaseNext == ApplyEase

EaseSpec == EaseInit /\ [][EaseNext]_vars

\* -------------------------------------------------------------- claims

\* the current handler made the call `name` on the plant
Called(name) == calls # <<>> /\ calls[1].op = name

\* the state after a handler made the call `name`
CalledNext(name) == calls' # <<>> /\ calls'[1].op = name

\* C1 as stated: whenever the generated branch list has exactly two entries,
\* the two orientations are exact negations of each other (one shared
\* magnitude from a single draw)
C1_SharedMagnitude ==
    Len(branches) = 2 => branches[1][2] = -branches[2][2]

\* C1 amended: whenever the generated branch list has exactly two entries,
\* the first orientation is negative and the second positive, and each
\* magnitude is acos of a draw of its own from [0.4, 0.6]
C1_OppositeSigns ==
    Len(branches) = 2 =>
        /\ branches[1][2] < 0
        /\ branches[2][2] > 0
        /\ \A i \in 1..2 :
             /\ Acos(600) <= Abs(branches[i][2])
             /\ Abs(branches[i][2]) <= Acos(400)

\* change_max_age produced two branches whose magnitudes differ
C1_Witness ==
    /\ Called("change_max_age")
    /\ Len(branches) = 2
    /\ Abs(branches[1][2]) # Abs(branches[2][2])

\* C3: after change_max_age(maxAge), maxAge in [0, 1], the branch list has
\* one or two entries (exactly one at maxAge = 0), every height fraction is in
\* [0.45 * width_coefficient, 0.55 * width_coefficient] and width_coefficient
\* is in [0.9, 1.1]
C3_BranchBounds ==
    maxAge # None =>
        /\ Len(branches) \in {1, 2}
        /\ maxAge = 0 => Len(branches) = 1
        /\ 900 <= width_coefficient /\ width_coefficient <= 1100
        /\ \A i \in 1..Len(branches) :
             /\ Mul(width_coefficient, 450) <= branches[i][1]
             /\ branches[i][1] <= Mul(width_coefficient, 550)

\* change_max_age(1) produced two branches
C3_Witness ==
    /\ Called("change_max_age")
    /\ maxAge = 1 * Scale
    /\ Len(branches) = 2

\* C5: the coefficients and the branch list change only in change_max_age,
\* which binds a new list object and leaves age unchanged; age changes only
\* in set_current_age, which changes nothing else
C5_Frame ==
    [][ /\ configVars' # configVars => CalledNext("change_max_age")
        /\ age' # age => CalledNext("set_current_age")
        /\ CalledNext("change_max_age") =>
             /\ age' = age
             /\ maxAge' = calls'[1].args[1]
             /\ branches_id' # branches_id
        /\ CalledNext("set_current_age") =>
             /\ age' = calls'[1].args[1]
             /\ configVars' = configVars ]_vars

\* a tree regenerated after its age was set keeps that age
C5_Witness ==
    /\ Called("change_max_age")
    /\ age > 0
    /\ Len(branches) = 2

\* the current handler drew the plant (draw, or save through draw)
Drew == Called("draw") \/ Called("save")

\* C2: while change_max_age was never called (maxAge is None), draw and save
\* issue no painter call, whatever the size and the age set; once it was
\* called they do
C2_NotReady ==
    /\ maxAge = None => painter = <<>> /\ age_coefficient = None
    /\ Drew /\ maxAge # None => painter # <<>>

\* save on a tree never generated, after set_current_age: nothing painted
C2_Witness ==
    /\ Called("save")
    /\ maxAge = None
    /\ age > 0
    /\ painter = <<>>

\* C4: a draw or save changes neither age, maxAge, the coefficients nor the
\* branch list, and emits exactly the painter calls that the first draw of
\* this config emitted whenever age and canvas size are those of that draw
C4_PureDraw ==
    [][ (CalledNext("draw") \/ CalledNext("save")) =>
          /\ treeVars' = treeVars
          /\ ( /\ first_draw # NoDraw
               /\ first_draw.age = age
               /\ first_draw.width = calls'[1].args[1]
               /\ first_draw.height = calls'[1].args[2] )
             => painter' = first_draw.ops ]_vars

\* a save repeating the size and age of an earlier draw of the same config
\* (only draw is remembered), with the painter calls of that draw
C4_Witness ==
    /\ Called("save")
    /\ first_draw # NoDraw
    /\ first_draw.age = age
    /\ age > 0
    /\ <<first_draw.width, first_draw.height>> = calls[1].args
    /\ painter = first_draw.ops
    /\ Len(painter) > 2

\* what a plain Tree with the plant's config and age paints at the size of
\* the current draw
PlainPrimitives == Primitives(drawAs("Tree", calls[1].args[1], calls[1].args[2]))

\* a primitive without its pen
Unpenned(q) == [points |-> q.points, xf |-> q.xf, brush |-> q.brush]

\* C6 as stated: the trunk and branch primitives of a GreenTree are those of a
\* plain Tree of the same config, age and canvas size (vertices, transform,
\* fill and outline), after one additional foliage polygon
C6_SameOutline ==
    Drew /\ maxAge # None =>
        /\ Len(Primitives(painter)) = Len(PlainPrimitives) + 1
        /\ Tail(Primitives(painter)) = PlainPrimitives

\* C6 amended: they agree in vertices, transform and fill, in list order, after
\* the one foliage polygon; the outline differs: the GreenTree paints all of
\* them with NoPen, the plain Tree with the pen the painter came with
C6_SameFill ==
    Drew /\ maxAge # None =>
        LET green == Primitives(painter)
            plain == PlainPrimitives
        IN /\ Len(green) = Len(plain) + 1
           /\ Len(plain) = 1 + Len(branches)
           /\ green[1].brush = <<0, 119, 0>>
           /\ \A i \in 1..Len(plain) :
                /\ Unpenned(green[i + 1]) = Unpenned(plain[i])
                /\ plain[i].brush = <<77, 51, 0>>
                /\ green[i + 1].pen = NoPen
                /\ plain[i].pen = DefaultPen

\* a grown GreenTree with two branches was drawn
C6_Witness ==
    /\ Called("draw")
    /\ cls = "GreenTree"
    /\ Len(branches) = 2
    /\ age = 1 * Scale
    /\ Len(Primitives(painter)) = 4

\* the trunk among the polygons painted: the first one with the trunk's brush
Trunk ==
    LET prims == Primitives(painter)
        k == CHOOSE i \in 1..Len(prims) :
                /\ prims[i].brush = <<77, 51, 0>>
                /\ \A j \in 1..(i - 1) : prims[j].brush # <<77, 51, 0>>
    IN prims[k]

\* C7: the trunk polygon is (-W, 0), (W, 0), (0, H) with
\* W = width/15 * width_coefficient * age_coefficient * ease(age) and
\* H = height/1.7 * height_coefficient * age_coefficient * ease(age); after
\* change_max_age(1) a 300 x 300 draw at age 0 gives the single point (0, 0)
\* and at age 1 the apex 300/1.7 * height_coefficient, age_coefficient being 1
C7_Trunk ==
    Drew /\ maxAge # None =>
        LET width == calls[1].args[1] * Scale
            height == calls[1].args[2] * Scale
            W == Mul(Mul(Mul(Div(width, 15 * Scale), width_coefficient),
                         age_coefficient), smoothen_curve(age))
            H == Mul(Mul(Mul(Div(height, 1700), height_coefficient),
                         age_coefficient), smoothen_curve(age))
            scenario == maxAge = 1 * Scale /\ calls[1].args = <<300, 300>>
        IN /\ Trunk.points = <<-W, 0, W, 0, 0, H>>
           /\ scenario /\ age = 0 => Trunk.points = <<0, 0, 0, 0, 0, 0>>
           /\ scenario /\ age = 1 * Scale =>
                /\ age_coefficient = 1 * Scale
                /\ Trunk.points[6] = Mul(Div(300 * Scale, 1700), height_coefficient)

\* change_max_age(1), set_current_age(1), then a 300 x 300 draw of a tree
\* whose two coefficients differ
C7_Witness ==
    /\ Called("draw")
    /\ calls[1].args = <<300, 300>>
    /\ maxAge = 1 * Scale
    /\ age = 1 * Scale
    /\ width_coefficient # height_coefficient
    /\ Trunk.points[6] > 0

\* C8: smoothen_curve(0) = 0, smoothen_curve(1) = 1, smoothen_curve(0.5) = 0.5,
\* smoothen_curve is non-decreasing on [0, 1] and its values there are in [0, 1]
C8_Ease ==
    ease_out # <<None, None>> =>
        /\ ease_in[1] <= ease_in[2] => ease_out[1] <= ease_out[2]
        /\ 0 <= ease_out[1] /\ ease_out[1] <= 1 * Scale
        /\ ease_in[1] = 0 => ease_out[1] = 0
        /\ ease_in[1] = 1 * Scale => ease_out[1] = 1 * Scale
        /\ ease_in[1] = Div(Scale, 2 * Scale) => ease_out[1] = Div(Scale, 2 * Scale)

\* smoothen_curve applied to 0.5 and 1
C8_Witness ==
    /\ ease_in = <<Div(Scale, 2 * Scale), 1 * Scale>>
    /\ ease_out = <<Div(Scale, 2 * Scale), 1 * Scale>>

\* the values the driver passes to the plant: change_max_age gets
\* min(1, study_minutes / 90), set_current_age gets 1 - leftover_time / total_time,
\* both in [0, 1], and when the age is set 0 < leftover_time <= total_time
DriverArguments ==
    /\ Called("change_max_age") =>
         /\ calls[1].args[1] =
                Min(1 * Scale, Div(study_spin * Scale, MAX_PLANT_AGE * Scale))
         /\ 0 <= calls[1].args[1] /\ calls[1].args[1] <= 1 * Scale
         /\ maxAge = calls[1].args[1]
    /\ Called("set_current_age") =>
         /\ calls[1].args[1] = 1 * Scale - Div(leftover_time, total_time)
         /\ 0 <= calls[1].args[1] /\ calls[1].args[1] <= 1 * Scale
         /\ age = calls[1].args[1]
         /\ 0 < leftover_time /\ leftover_time <= total_time

\* C9 as stated: the arguments are as above and leftover_time never exceeds
\* total_time
C9_NeverExceeds ==
    /\ DriverArguments
    /\ leftover_time # None => leftover_time <= total_time

\* C9 amended: the arguments are as above and leftover_time never exceeds
\* total_time while study_done is false (in a break entered when the study
\* countdown ends, leftover_time is the break's length and total_time still
\* the study's)
C9_Arguments ==
    /\ DriverArguments
    /\ (leftover_time # None /\ ~study_done) => leftover_time <= total_time

\* a tick of a capped (maxAge = 1) study session set an age strictly inside (0, 1)
C9_Witness ==
    /\ Called("set_current_age")
    /\ maxAge = 1 * Scale
    /\ study_spin > MAX_PLANT_AGE
    /\ 0 < age /\ age < 1 * Scale

\* C10: set_current_age is called only by a tick of a running study countdown
\* that leaves leftover_time positive, change_max_age only when a study session
\* is started; age and config change in no other way, so not in a break, not
\* while paused or idle; the tick that ends the study countdown saves the plant
\* at the age it had; within a study session the ages set never decrease
C10_GrowsOnlyStudying ==
    [][ /\ CalledNext("set_current_age") =>
             /\ timer_active /\ ~study_done /\ ~study_done'
             /\ leftover_time' = leftover_time - TickSeconds
             /\ leftover_time' > 0
             /\ age_set => age' >= age
        /\ CalledNext("change_max_age") =>
             /\ study_enabled /\ ~study_done' /\ timer_active'
             /\ leftover_time' = study_spin * 60
             /\ total_time' = leftover_time'
             /\ age' = age
        /\ age' # age => CalledNext("set_current_age")
        /\ configVars' # configVars => CalledNext("change_max_age")
        /\ (study_done \/ ~timer_active) => age' = age
        /\ CalledNext("save") =>
             /\ timer_active /\ ~study_done /\ study_done'
             /\ leftover_time - TickSeconds <= 0
             /\ treeVars' = treeVars
             /\ painter' = drawAs(cls, CanvasSide, CanvasSide) ]_vars

\* the study countdown has just ended: the plant was saved at the age of the
\* tick before, below 1, and the break runs
C10_Witness ==
    /\ Called("save")
    /\ study_done
    /\ age_set
    /\ 0 < age /\ age < 1 * Scale
    /\ painter # <<>>

====
